---- MODULE Spec2Model ----
(***************************************************************************)
(* A model of the glue code of day1notebooks/lab2_end_to_end.ipynb: the    *)
(* data directory set-up, download and tidy-up cells, the two dataset      *)
(* partitioning cells, the hand-rolled training loop and the test cell.    *)
(*                                                                         *)
(* Conventions.  Python lists are sequences; Python's 0-based position k   *)
(* is position k + 1 here.  Class labels keep Python's 0-based values.     *)
(* Fractions (val_frac, a draw of np.random.random()) are counted in       *)
(* tenths, so 0.1 is 1 and rann < 0.1 is rann < 1.  Metric values (AUC,    *)
(* accuracy) are counted in levels 0..MaxLevel of equal width.             *)
(***************************************************************************)
EXTENDS Integers, Sequences, FiniteSets

VARIABLES
    \* the dataset read from the folders (cell "Read the image filenames")
    num_total, image_files_list, image_class,
    \* numpy's global generator: how many values were drawn from it so far
    np_global,
    \* what RandomState(seed).shuffle does, per seed (fixed, unknown)
    seeded,
    \* the partitioning cells
    dataset_seed, pc, i, rann,
    train_x, train_y, val_x, val_y, test_x, test_y,
    split_by, last_cell,
    \* history: the counts of the previous random-draw run; whether the
    \* revised cell was just re-run on its own earlier result
    prev_counts, reran,
    \* the hand-rolled training loop and the test cell
    tpc, epoch, best_metric, best_metric_epoch, metric_values, net,
    \* best_metric_model.pth: <<>> when missing, else <<the weights saved>>
    model_file,
    \* history: acc_metric of every epoch; the epochs that called torch.save
    acc_values, save_log,
    \* the process environment and the data directory cells: a value that
    \* may be None is <<>> for None and <<v>> for v
    environ, directory, root_dir, dpc,
    \* the file system: the root directories that exist, and those of them
    \* that hold MedNIST.tar.gz and the MedNIST directory
    dirs, archives, data_dirs, tmp_made,
    \* the cell run last and whether it ended in an exception
    dir_cell, cell_error,
    \* history: runs of the download cell, calls of download_and_extract,
    \* how the last run's call ended, the directories rmtree removed
    download_runs, download_calls, last_outcome, deleted

split_vars == <<num_total, image_files_list, image_class, np_global, seeded,
                dataset_seed, pc, i, rann, train_x, train_y, val_x, val_y,
                test_x, test_y, split_by, last_cell, prev_counts, reran>>

train_vars == <<tpc, epoch, best_metric, best_metric_epoch, metric_values,
                net, model_file, acc_values, save_log>>

dir_vars == <<environ, directory, root_dir, dpc, dirs, archives, data_dirs,
              tmp_made, dir_cell, cell_error, download_runs, download_calls,
              last_outcome, deleted>>

vars == <<split_vars, train_vars, dir_vars>>

----------------------------------------------------------------------------
(* Bounds of the model *)

\* the largest dataset (number of image files)
MaxTotal == 10
\* the largest dataset the random-draw partitioning cell is run on
MaxDrawTotal == 5
\* number of class folders under data_dir
NumClass == 2
\* the most values ever drawn from numpy's global generator
MaxGlobalDraws == 10

\* the number of levels an AUC or an accuracy is told apart by, minus one
MaxLevel == 2

\* the most temporary directories tempfile.mkdtemp() is asked for
MaxTemp == 2
\* the most runs of the download cell
MaxRuns == 3

(* Program constants *)

\* epoch_num = 4
epoch_num == 4

\* val_frac = 0.1 and test_frac = 0.1, in tenths
val_frac == 1
test_frac == 1
\* validation_proportion = 0.1 and test_proportion = 0.1, in tenths
validation_proportion == 1
test_proportion == 1
\* dataset_seed = 12345678
DatasetSeed == 12345678
\* np.random.randint(num_total, size=9)
PreviewDraws == 9

\* the seeds the revised cell is run with: the notebook's and an edited one
Seeds == {DatasetSeed, DatasetSeed + 1}

\* the draws of np.random.random() the model takes, in tenths: one below
\* val_frac, val_frac itself, val_frac + test_frac itself, one above both
RannValues == {0, 1, 2, 5}

None == "None"

----------------------------------------------------------------------------
(* Reading the dataset *)

\* num_each[c]: the files listed in class folder c (an even split of n)
NumEach(n) ==
    [c \in 1..NumClass |->
        (n \div NumClass) + (IF c <= n % NumClass THEN 1 ELSE 0)]

\* image_files[c]: os.path.join(data_dir, class_names[c], x) for each listed
\* x; a path is the pair <<class folder, position in its listing>>
ImageFiles(n) ==
    [c \in 1..NumClass |-> [j \in 1..NumEach(n)[c] |-> <<c, j>>]]

RECURSIVE ExtendFiles(_, _)
\* image_files_list after the first c rounds of extend
ExtendFiles(n, c) ==
    IF c = 0 THEN <<>> ELSE ExtendFiles(n, c - 1) \o ImageFiles(n)[c]

RECURSIVE ExtendClass(_, _)
\* image_class after the first c rounds of extend([i] * num_each[i])
ExtendClass(n, c) ==
    IF c = 0 THEN <<>>
    ELSE ExtendClass(n, c - 1) \o [j \in 1..NumEach(n)[c] |-> c - 1]

----------------------------------------------------------------------------
(* The revised partitioning: pure parts *)

\* floor(p * n) for a proportion p given in tenths.  For every n below 2^31
\* the double 0.1 * n floors to the same integer as n / 10 does.
Floor(p, n) == (p * n) \div 10

validation_count(n) == Floor(validation_proportion, n)
test_count(n) == Floor(test_proportion, n)

\* the bug of slicing groups[validation_count:test_count]
GroupsSliceEnd(n) == [k \in 1..n |->
    IF k <= validation_count(n) THEN 1
    ELSE IF k <= test_count(n) THEN 2
    ELSE 0]

\* groups before the shuffle: zeros, then groups[:validation_count] = 1 and
\* groups[validation_count:validation_count + test_count] = 2
Groups(n) == [k \in 1..n |->
    IF k <= validation_count(n) THEN 1
    ELSE IF k <= validation_count(n) + test_count(n) THEN 2
    ELSE 0]

\* the slots of groups that can hold a label other than 0
Support(n) == validation_count(n) + test_count(n)

\* What a shuffle of an n-element array does to its first Support(n) slots:
\* dest[j] is the position slot j lands on.  The other slots all hold 0 and
\* fill the positions left, so this is all of the permutation that shows.
Shuffles(n) ==
    {d \in [1..Support(n) -> 1..n] :
        \A a, b \in 1..Support(n) : a # b => d[a] # d[b]}

\* groups after r.shuffle(groups), the permutation being dest
Shuffled(groups, dest) == [p \in DOMAIN groups |->
    IF \E j \in DOMAIN dest : dest[j] = p
    THEN groups[CHOOSE j \in DOMAIN dest : dest[j] = p]
    ELSE 0]

RECURSIVE Collect(_, _, _, _)
\* image_sets[g] (or label_sets[g]) after the first n rounds of the loop
\* "for n in range(num_total): image_sets[groups[n]].append(src[n])"
Collect(src, groups, g, n) ==
    IF n = 0 THEN <<>>
    ELSE IF groups[n] = g
         THEN Append(Collect(src, groups, g, n - 1), src[n])
         ELSE Collect(src, groups, g, n - 1)

----------------------------------------------------------------------------
(* The random-draw partitioning: pure parts *)

\* the bug of writing the second test as "if" instead of "elif"
DrawBranchesIfIf(r) ==
    (IF r < val_frac THEN {"val"} ELSE {})
    \cup (IF r < test_frac + val_frac THEN {"test"} ELSE {"train"})

\* the bug of comparing with <= instead of <
DrawBranchesLe(r) ==
    IF r <= val_frac THEN {"val"}
    ELSE IF r <= test_frac + val_frac THEN {"test"}
    ELSE {"train"}

\* the lists the loop body appends image i to, for the draw r
DrawBranches(r) ==
    IF r < val_frac THEN {"val"}
    ELSE IF r < test_frac + val_frac THEN {"test"}
    ELSE {"train"}

\* list.append on one of the three lists, when the branch is taken
AppendIf(list, name, branches, x) ==
    IF name \in branches THEN Append(list, x) ELSE list

Counts == <<Len(train_x), Len(val_x), Len(test_x)>>

----------------------------------------------------------------------------
(* Initial state: the dataset is read, nothing is partitioned *)

SplitInit(totals) ==
    /\ num_total \in totals
    /\ image_files_list = ExtendFiles(num_total, NumClass)
    /\ image_class = ExtendClass(num_total, NumClass)
    /\ np_global = 0
    /\ seeded \in [Seeds -> Shuffles(num_total)]
    /\ dataset_seed = DatasetSeed
    /\ pc = "idle"
    /\ i = 0
    /\ rann = None
    /\ train_x = <<>> /\ train_y = <<>>
    /\ val_x = <<>> /\ val_y = <<>>
    /\ test_x = <<>> /\ test_y = <<>>
    /\ split_by = "none"
    /\ last_cell = "read"
    /\ prev_counts = <<>>
    /\ reran = FALSE

InitSplit == SplitInit(0..MaxTotal)

\* no dataset at all: the partitioning cells have nothing to do
SplitQuiet == SplitInit({0})

----------------------------------------------------------------------------
(* Cells *)

\* "Randomly pick images": np.random.randint(num_total, size=9) on the
\* global generator (it raises on num_total = 0)
PreviewCell ==
    /\ pc = "idle"
    /\ num_total > 0
    /\ np_global + PreviewDraws <= MaxGlobalDraws
    /\ np_global' = np_global + PreviewDraws
    /\ last_cell' = "preview"
    /\ UNCHANGED <<num_total, image_files_list, image_class, seeded,
                   dataset_seed, pc, i, rann, train_x, train_y, val_x, val_y,
                   test_x, test_y, split_by, prev_counts, reran>>

\* first partitioning cell, up to the loop: the six lists are emptied
FirstPartitionCell ==
    /\ pc = "idle"
    /\ num_total <= MaxDrawTotal
    /\ np_global + num_total <= MaxGlobalDraws
    /\ pc' = "draw_loop"
    /\ i' = 0
    /\ train_x' = <<>> /\ train_y' = <<>>
    /\ val_x' = <<>> /\ val_y' = <<>>
    /\ test_x' = <<>> /\ test_y' = <<>>
    /\ split_by' = "none"
    /\ last_cell' = "draw"
    /\ prev_counts' = IF split_by = "draw" THEN Counts ELSE prev_counts
    /\ UNCHANGED <<num_total, image_files_list, image_class, np_global,
                   seeded, dataset_seed, rann, reran>>

\* one round of "for i in range(num_total)": a draw and the appends
DrawLoopStep ==
    /\ pc = "draw_loop"
    /\ i < num_total
    /\ \E r \in RannValues :
        LET b == DrawBranches(r)
            x == image_files_list[i + 1]
            y == image_class[i + 1]
        IN /\ rann' = r
           /\ val_x' = AppendIf(val_x, "val", b, x)
           /\ val_y' = AppendIf(val_y, "val", b, y)
           /\ test_x' = AppendIf(test_x, "test", b, x)
           /\ test_y' = AppendIf(test_y, "test", b, y)
           /\ train_x' = AppendIf(train_x, "train", b, x)
           /\ train_y' = AppendIf(train_y, "train", b, y)
    /\ np_global' = np_global + 1
    /\ i' = i + 1
    /\ UNCHANGED <<num_total, image_files_list, image_class, seeded,
                   dataset_seed, pc, split_by, last_cell, prev_counts,
                   reran>>

\* the loop is exhausted; the cell prints the counts and ends
DrawLoopEnd ==
    /\ pc = "draw_loop"
    /\ i = num_total
    /\ pc' = "idle"
    /\ split_by' = "draw"
    /\ UNCHANGED <<num_total, image_files_list, image_class, np_global,
                   seeded, dataset_seed, i, rann, train_x, train_y, val_x,
                   val_y, test_x, test_y, last_cell, prev_counts, reran>>

\* history: this run of the revised cell repeats, with the same seed, the
\* run that produced the current lists, another cell having run in between
Rerun(seed) ==
    split_by = "revised" /\ dataset_seed = seed /\ last_cell # "revised"

\* the bug of shuffling with numpy's global generator: np.random.shuffle
RevisedPartitionGlobal(seed) ==
    /\ pc = "idle"
    /\ np_global + 1 <= MaxGlobalDraws
    /\ \E dest \in Shuffles(num_total) :
        LET groups == Shuffled(Groups(num_total), dest)
        IN /\ train_x' = Collect(image_files_list, groups, 0, num_total)
           /\ val_x' = Collect(image_files_list, groups, 1, num_total)
           /\ test_x' = Collect(image_files_list, groups, 2, num_total)
           /\ train_y' = Collect(image_class, groups, 0, num_total)
           /\ val_y' = Collect(image_class, groups, 1, num_total)
           /\ test_y' = Collect(image_class, groups, 2, num_total)
    /\ np_global' = np_global + 1
    /\ dataset_seed' = seed
    /\ split_by' = "revised"
    /\ last_cell' = "revised"
    /\ reran' = Rerun(seed)
    /\ UNCHANGED <<num_total, image_files_list, image_class, seeded, pc, i,
                   rann, prev_counts>>

\* the revised partitioning cell, run with dataset_seed = seed: a fresh
\* RandomState(seed) shuffles groups, then the loop fills the three sets
RevisedPartition(seed) ==
    /\ pc = "idle"
    /\ LET groups == Shuffled(Groups(num_total), seeded[seed])
       IN /\ train_x' = Collect(image_files_list, groups, 0, num_total)
          /\ val_x' = Collect(image_files_list, groups, 1, num_total)
          /\ test_x' = Collect(image_files_list, groups, 2, num_total)
          /\ train_y' = Collect(image_class, groups, 0, num_total)
          /\ val_y' = Collect(image_class, groups, 1, num_total)
          /\ test_y' = Collect(image_class, groups, 2, num_total)
    /\ dataset_seed' = seed
    /\ split_by' = "revised"
    /\ last_cell' = "revised"
    /\ reran' = Rerun(seed)
    /\ UNCHANGED <<num_total, image_files_list, image_class, np_global,
                   seeded, pc, i, rann, prev_counts>>

RevisedPartitionCell == \E seed \in Seeds : RevisedPartition(seed)

----------------------------------------------------------------------------
(* The hand-rolled training loop and the test cell *)

\* the values of a validation metric (AUC, accuracy), as levels
Levels == 0..MaxLevel

\* The weights of net are named by the number of training epochs that made
\* them: 0 for the freshly built network, k after the k-th epoch.

\* "Define network and optimizer" has run; nothing is trained or saved
\* (best_metric and best_metric_epoch already hold the -1 the training cell
\* gives them before its loop)
InitTrain ==
    /\ tpc = "defined"
    /\ epoch = 0
    /\ best_metric = -1
    /\ best_metric_epoch = -1
    /\ metric_values = <<>>
    /\ net = 0
    /\ model_file = <<>>
    /\ acc_values = <<>>
    /\ save_log = {}

\* the variant that saves on a tie as well: auc_metric >= best_metric
ImprovedGe(auc, best) == auc >= best

\* the variant that saves after every epoch
ImprovedAlways(auc, best) == TRUE

\* "if auc_metric > best_metric"
Improved(auc, best) == auc > best

\* the training cell up to the loop
TrainingCell ==
    /\ tpc = "defined"
    /\ tpc' = "train"
    /\ epoch' = 0
    /\ best_metric' = -1
    /\ best_metric_epoch' = -1
    /\ metric_values' = <<>>
    /\ acc_values' = <<>>
    /\ save_log' = {}
    /\ UNCHANGED <<net, model_file>>

\* one round of "for epoch in range(epoch_num)": the training pass, the
\* validation pass with its two metrics, and the save when AUC improved
TrainEpoch ==
    /\ tpc = "train"
    /\ epoch < epoch_num
    /\ net' = net + 1
    /\ \E auc_metric \in Levels, acc_metric \in Levels :
        /\ metric_values' = Append(metric_values, auc_metric)
        /\ acc_values' = Append(acc_values, acc_metric)
        /\ IF Improved(auc_metric, best_metric)
           THEN /\ best_metric' = auc_metric
                /\ best_metric_epoch' = epoch + 1
                /\ model_file' = <<net'>>
                /\ save_log' = save_log \cup {epoch + 1}
           ELSE UNCHANGED <<best_metric, best_metric_epoch, model_file,
                            save_log>>
    /\ epoch' = epoch + 1
    /\ UNCHANGED tpc

\* the loop is exhausted: "train completed" is printed
TrainEnd ==
    /\ tpc = "train"
    /\ epoch = epoch_num
    /\ tpc' = "trained"
    /\ UNCHANGED <<epoch, best_metric, best_metric_epoch, metric_values,
                   net, model_file, acc_values, save_log>>

\* the variant that evaluates net as the last epoch left it
TestCellNoLoad ==
    /\ tpc = "trained"
    /\ tpc' = "tested"
    /\ UNCHANGED <<epoch, best_metric, best_metric_epoch, metric_values,
                   net, model_file, acc_values, save_log>>

\* the test cell: net.load_state_dict(torch.load(best_metric_model.pth)),
\* then the predictions; torch.load raises when the file is missing
TestCell ==
    /\ tpc = "trained"
    /\ IF model_file = <<>>
       THEN tpc' = "raised" /\ UNCHANGED net
       ELSE tpc' = "tested" /\ net' = model_file[1]
    /\ UNCHANGED <<epoch, best_metric, best_metric_epoch, metric_values,
                   model_file, acc_values, save_log>>

----------------------------------------------------------------------------
(* The data directory, download and tidy-up cells *)

\* the directory MONAI_DATA_DIRECTORY names, when it is set
EnvPath == <<"env", 0>>
\* the k-th directory tempfile.mkdtemp() creates: a new name every time
TempDir(k) == <<"tmp", k>>
\* the directories mkdtemp has created so far
Made == {TempDir(k) : k \in 1..tmp_made}

\* how a call of download_and_extract can end: all done; the download (or
\* the md5 check) raised; the extraction raised, part way or before it
\* created the MedNIST directory
Outcomes == {"ok", "download_error", "extract_error"}

\* a fresh kernel: the variable is unset or names a directory, which may or
\* may not exist and may already hold an extracted MedNIST
InitDir ==
    /\ environ \in {<<>>, <<EnvPath>>}
    /\ directory = <<>>
    /\ root_dir = <<>>
    /\ dpc = "start"
    /\ dirs \in (IF environ = <<>> THEN {{}} ELSE {{}, {EnvPath}})
    /\ archives = {}
    /\ data_dirs \in SUBSET dirs
    /\ tmp_made = 0
    /\ dir_cell = "none"
    /\ cell_error = FALSE
    /\ download_runs = 0
    /\ download_calls = 0
    /\ last_outcome = "none"
    /\ deleted = {}

\* the variable is unset and no cell of this group runs
DirQuiet == InitDir /\ environ = <<>>

\* "tempfile.mkdtemp() if directory is None": directory is already assigned
NewRoot == directory' = <<>>

\* directory = os.environ.get("MONAI_DATA_DIRECTORY");
\* root_dir = tempfile.mkdtemp() if directory is None else directory
SetupCell ==
    /\ environ = <<>> => tmp_made < MaxTemp
    /\ directory' = environ
    /\ IF NewRoot
       THEN /\ tmp_made' = tmp_made + 1
            /\ root_dir' = <<TempDir(tmp_made + 1)>>
            /\ dirs' = dirs \cup {TempDir(tmp_made + 1)}
       ELSE /\ root_dir' = directory'
            /\ UNCHANGED <<tmp_made, dirs>>
    /\ dpc' = "set"
    /\ dir_cell' = "setup"
    /\ cell_error' = FALSE
    /\ UNCHANGED <<environ, archives, data_dirs, download_runs,
                   download_calls, last_outcome, deleted>>

\* the variant that downloads on every run
ShouldDownloadAlways(root) == TRUE

\* "if not os.path.exists(data_dir)", data_dir being root/MedNIST
ShouldDownload(root) == root \notin data_dirs

\* the download cell
DownloadCell ==
    /\ dpc = "set"
    /\ download_runs < MaxRuns
    /\ download_runs' = download_runs + 1
    /\ dir_cell' = "download"
    /\ LET root == root_dir[1] IN
       IF ShouldDownload(root)
       THEN /\ download_calls' = download_calls + 1
            /\ \E outcome \in Outcomes :
                /\ last_outcome' = outcome
                /\ cell_error' = (outcome # "ok")
                /\ CASE outcome = "ok" ->
                          /\ dirs' = dirs \cup {root}
                          /\ archives' = archives \cup {root}
                          /\ data_dirs' = data_dirs \cup {root}
                     [] outcome = "download_error" ->
                          UNCHANGED <<dirs, archives, data_dirs>>
                     [] outcome = "extract_error" ->
                          /\ dirs' = dirs \cup {root}
                          /\ archives' = archives \cup {root}
                          /\ data_dirs' \in {data_dirs, data_dirs \cup {root}}
       ELSE /\ last_outcome' = "none"
            /\ cell_error' = FALSE
            /\ UNCHANGED <<download_calls, dirs, archives, data_dirs>>
    /\ UNCHANGED <<environ, directory, root_dir, dpc, tmp_made, deleted>>

\* the variant that removes root_dir whatever directory is
ShouldTidyAlways == TRUE

\* "if directory is None"
ShouldTidy == directory = <<>>

\* the tidy-up cell: shutil.rmtree(root_dir), which raises when root_dir is
\* already gone
TidyCell ==
    /\ dpc = "set"
    /\ dir_cell' = "tidy"
    /\ LET root == root_dir[1] IN
       IF ShouldTidy
       THEN IF root \in dirs
            THEN /\ dirs' = dirs \ {root}
                 /\ archives' = archives \ {root}
                 /\ data_dirs' = data_dirs \ {root}
                 /\ deleted' = deleted \cup {root}
                 /\ cell_error' = FALSE
            ELSE /\ cell_error' = TRUE
                 /\ UNCHANGED <<dirs, archives, data_dirs, deleted>>
       ELSE /\ cell_error' = FALSE
            /\ UNCHANGED <<dirs, archives, data_dirs, deleted>>
    /\ UNCHANGED <<environ, directory, root_dir, dpc, tmp_made,
                   download_runs, download_calls, last_outcome>>

----------------------------------------------------------------------------
(* Specifications *)

\* the partitioning cells, on every dataset up to MaxTotal images
Init == InitSplit /\ InitTrain /\ DirQuiet
Next ==
    \/ PreviewCell /\ UNCHANGED <<train_vars, dir_vars>>
    \/ FirstPartitionCell /\ UNCHANGED <<train_vars, dir_vars>>
    \/ DrawLoopStep /\ UNCHANGED <<train_vars, dir_vars>>
    \/ DrawLoopEnd /\ UNCHANGED <<train_vars, dir_vars>>
    \/ RevisedPartitionCell /\ UNCHANGED <<train_vars, dir_vars>>
Spec == Init /\ [][Next]_vars

\* the training loop and the test cell
InitT == SplitQuiet /\ InitTrain /\ DirQuiet
NextT ==
    \/ TrainingCell /\ UNCHANGED <<split_vars, dir_vars>>
    \/ TrainEpoch /\ UNCHANGED <<split_vars, dir_vars>>
    \/ TrainEnd /\ UNCHANGED <<split_vars, dir_vars>>
    \/ TestCell /\ UNCHANGED <<split_vars, dir_vars>>
SpecTrain == InitT /\ [][NextT]_vars

\* the data directory, download and tidy-up cells
InitD == SplitQuiet /\ InitTrain /\ InitDir
NextD ==
    \/ SetupCell /\ UNCHANGED <<split_vars, train_vars>>
    \/ DownloadCell /\ UNCHANGED <<split_vars, train_vars>>
    \/ TidyCell /\ UNCHANGED <<split_vars, train_vars>>
SpecDir == InitD /\ [][NextD]_vars

----------------------------------------------------------------------------
(* Properties of the partitioning cells *)

\* position of a file in image_files_list (the paths are distinct)
IndexOf(f) == CHOOSE k \in 1..num_total : image_files_list[k] = f

\* how often file f occurs in a list
Occurrences(list, f) == Cardinality({p \in DOMAIN list : list[p] = f})

\* the images handled so far by the partitioning that filled the lists
Processed == IF pc = "draw_loop" THEN i ELSE num_total

\* a list holds files of image_files_list in increasing index order
Increasing(list) ==
    /\ \A p \in DOMAIN list : \E k \in 1..num_total : image_files_list[k] = list[p]
    /\ \A p, q \in DOMAIN list : p < q => IndexOf(list[p]) < IndexOf(list[q])

\* the labels of a list are the classes of its images, position by position
Aligned(xs, ys) ==
    /\ Len(ys) = Len(xs)
    /\ \A p \in DOMAIN xs : ys[p] = image_class[IndexOf(xs[p])]

\* C1: after the revised partitioning cell, whatever the shuffle did, val_x
\* and test_x each hold floor(0.1 * num_total) images and train_x holds
\* num_total - 2 * floor(0.1 * num_total).
RevisedSizesFixed ==
    split_by = "revised" =>
        /\ Len(val_x) = num_total \div 10
        /\ Len(test_x) = num_total \div 10
        /\ Len(train_x) = num_total - 2 * (num_total \div 10)

\* a revised split of ten or more images in which the shuffle moved the
\* validation label away from the first image
RevisedSizesWitness ==
    /\ split_by = "revised"
    /\ num_total >= 10
    /\ Len(val_x) = 1 /\ Len(test_x) = 1
    /\ val_x[1] # image_files_list[1]

\* C2: while and after either partitioning cell fills the lists, every image
\* handled so far is in exactly one of train_x, val_x, test_x, exactly once,
\* each list is in increasing index order, and train_y, val_y, test_y hold
\* the classes of the images of train_x, val_x, test_x position by position.
ExactPartition ==
    (pc = "draw_loop" \/ split_by # "none") =>
        /\ \A k \in 1..num_total :
            Occurrences(train_x, image_files_list[k])
            + Occurrences(val_x, image_files_list[k])
            + Occurrences(test_x, image_files_list[k])
            = (IF k <= Processed THEN 1 ELSE 0)
        /\ Increasing(train_x) /\ Increasing(val_x) /\ Increasing(test_x)
        /\ Aligned(train_x, train_y)
        /\ Aligned(val_x, val_y)
        /\ Aligned(test_x, test_y)

\* a finished random-draw split with images of both classes in training and
\* something in validation and in test
ExactPartitionWitness ==
    /\ split_by = "draw"
    /\ Len(val_x) > 0 /\ Len(test_x) > 0
    /\ \E p, q \in DOMAIN train_y : train_y[p] # train_y[q]

\* C3: a run of the revised cell leaves numpy's global generator as it was,
\* and a run with the seed of the run that produced the current lists
\* produces the same six lists again.
RevisedDeterministic ==
    [][last_cell' = "revised" =>
        /\ np_global' = np_global
        /\ (split_by = "revised" /\ dataset_seed' = dataset_seed) =>
            <<train_x, train_y, val_x, val_y, test_x, test_y>>'
            = <<train_x, train_y, val_x, val_y, test_x, test_y>>]_vars

\* the revised cell re-run with the same seed on ten or more images, after
\* the preview cell drew from the global generator in between
RevisedDeterministicWitness ==
    /\ last_cell = "revised" /\ reran
    /\ np_global > 0
    /\ num_total >= 10
    /\ val_x # <<>> /\ test_x # <<>>

\* C4: in the random-draw loop image i goes to validation when its draw is
\* below val_frac, to test when it is not but is below val_frac + test_frac,
\* and to training otherwise; the counts follow the draws.
DrawDecidesSet ==
    [][(pc = "draw_loop" /\ i' = i + 1) =>
        LET x == image_files_list[i']
            to_val == rann' < val_frac
            to_test == ~to_val /\ rann' < val_frac + test_frac
            to_train == ~to_val /\ ~to_test
        IN /\ val_x' = (IF to_val THEN Append(val_x, x) ELSE val_x)
           /\ test_x' = (IF to_test THEN Append(test_x, x) ELSE test_x)
           /\ train_x' = (IF to_train THEN Append(train_x, x) ELSE train_x)]_vars

\* two finished random-draw runs over the same file list with different
\* (train, validation, test) counts
DrawCountsDiffer ==
    /\ split_by = "draw"
    /\ prev_counts # <<>>
    /\ prev_counts # Counts

----------------------------------------------------------------------------
(* Properties of the training loop and the test cell *)

\* the epochs run so far
Epochs == 1..Len(metric_values)

\* the epochs whose validation AUC no epoch so far exceeds
BestAucEpochs ==
    {e \in Epochs : \A d \in Epochs : metric_values[e] >= metric_values[d]}

\* C5: an epoch calls torch.save exactly when its validation AUC is above
\* that of every earlier epoch; so after every epoch best_metric is the
\* largest AUC so far, best_metric_epoch is the earliest epoch that reached
\* it, and the file holds the weights of that epoch.
BestMetricTracked ==
    /\ save_log =
        {e \in Epochs :
            \A d \in 1..(e - 1) : metric_values[e] > metric_values[d]}
    /\ Epochs # {} =>
        /\ best_metric_epoch \in BestAucEpochs
        /\ \A e \in BestAucEpochs : best_metric_epoch <= e
        /\ best_metric = metric_values[best_metric_epoch]
        /\ model_file = <<best_metric_epoch>>

\* the training has ended; a later epoch tied with the best one and did not
\* replace the saved weights
BestMetricTieWitness ==
    /\ tpc = "trained"
    /\ \E e \in BestAucEpochs : e > best_metric_epoch /\ e \notin save_log
    /\ model_file = <<best_metric_epoch>>

\* C6: once the test cell has run after the training loop, net holds the
\* weights it had at the end of an epoch of highest validation AUC.
TestedIsBestAuc ==
    tpc = "tested" => net \in BestAucEpochs

\* the test cell has run and the last epoch was not a best one: the weights
\* loaded are not those the last epoch left
TestedIsBestAucWitness ==
    /\ tpc = "tested"
    /\ epoch_num \notin BestAucEpochs
    /\ net # epoch_num

----------------------------------------------------------------------------
(* Properties of the data directory cells *)

\* C8: once the set-up cell has run, root_dir is the directory mkdtemp has
\* just created exactly when MONAI_DATA_DIRECTORY is unset, and otherwise
\* it is the directory the variable names; rmtree has removed only
\* directories mkdtemp created, never the one the variable names.
RootDirKept ==
    /\ dpc = "set" =>
        /\ (environ = <<>>) <=> (root_dir[1] \in Made)
        /\ environ = <<>> => root_dir = <<TempDir(tmp_made)>>
        /\ environ # <<>> => root_dir = environ
    /\ deleted \subseteq Made
    /\ environ # <<>> => environ[1] \notin deleted

\* the tidy-up cell has run with the variable set, and the directory it
\* names is still there with the extracted data
RootDirKeptWitness ==
    /\ dir_cell = "tidy"
    /\ environ # <<>>
    /\ root_dir = environ
    /\ root_dir[1] \in data_dirs
    /\ download_calls > 0

\* C9: a run of the download cell calls download_and_extract exactly when
\* the MedNIST directory under root_dir does not exist at that moment; a
\* run that does not call it changes no file; a call that fails ends the
\* cell in an exception.
DownloadOnlyIfMissing ==
    [][download_runs' = download_runs + 1 =>
        /\ (download_calls' = download_calls + 1)
            <=> (root_dir[1] \notin data_dirs)
        /\ root_dir[1] \in data_dirs =>
            /\ <<dirs, archives, data_dirs>>' = <<dirs, archives, data_dirs>>
            /\ ~cell_error'
        /\ last_outcome' \in {"download_error", "extract_error"} =>
            cell_error']_vars

\* the download cell has run again after a call that succeeded, without a
\* second call
DownloadOnlyIfMissingWitness ==
    /\ dir_cell = "download"
    /\ download_runs >= 2
    /\ download_calls = 1
    /\ last_outcome = "none"
    /\ root_dir[1] \in archives

====
